---- MODULE Spec2Model ----
(***************************************************************************)
(* A model of the two pipelines of ExtempQProvider:                        *)
(*   - the generator (src/extemp_generator.py): reads the corpus file,     *)
(*     processes a batch of at most 5 articles through the language model, *)
(*     appends one entry per article to the output file and rewrites the   *)
(*     corpus file with backup / verify / restore;                         *)
(*   - the sender (src/email_sender.py): parses the output file, filters   *)
(*     the blocks against the sent log, sends one digest and appends the   *)
(*     digest's links to the sent log.                                     *)
(* Files are modelled by their content (a sequence of lines or of blank-   *)
(* line separated blocks of lines); text is modelled by its sentences,     *)
(* each with its number of words and of characters.                        *)
(***************************************************************************)
EXTENDS Integers, Sequences, FiniteSets, TLC

(***************************************************************************)
(* Bounds of the model.                                                    *)
(***************************************************************************)
\* the largest number of records of an initial corpus file
MaxCorpus == 6
\* the largest number of articles of 150 words or more in an initial corpus
MaxSubstantial == 2
\* the number of generator runs explored
MaxRuns == 2
\* the largest number of entries of an initial output file (sender)
MaxEntries == 3
\* the number of sender runs explored
MaxSendRuns == 3
\* the largest number of records written and read back
MaxRecords == 3
\* the largest number of analytical phrases of a model output
MaxPhrases == 2
\* the largest number of blocks of a corpus file of any content
MaxRawBlocks == 3

(***************************************************************************)
(* Program constants.                                                      *)
(***************************************************************************)
\* batch_size = min(5, len(all_articles))
BatchCap == 5
\* an article of fewer words is skipped; a chunk of fewer words is not sent
\* to the model
MinWords == 150
\* word_count > 1000: only the first chunk of at most 1000 words is used
ChunkCeiling == 1000
\* read_articles keeps an article only if len(current_article) > 50
MinArticleChars == 50
\* max_retries of the corpus rewrite
max_retries == 3
\* the corpus is rewritten when (i + 1) % 10 == 0 or at the end of the batch
UpdateEvery == 10
\* read_extemp_questions keeps a block only if len(content.strip()) > 50
MinContentChars == 50

VARIABLES
    \* ---- files
    corpus,             \* the corpus (input) file: [ex, data]
    backup,             \* the file input_file + '.backup': [ex, data]
    outFile,            \* extemp_questions.txt: a sequence of sections
    sentLog,            \* sent_questions_log.txt: [ex, data]
    \* ---- generator process (main of extemp_generator.py)
    gpc,                \* position of the generator run
    backup_filename,    \* TRUE: a backup file name, FALSE: None
    all_articles,
    batch_size,
    i,                  \* loop index (0-based, as in the code)
    processed_articles,
    remaining_articles,
    attempt,
    \* ---- generator history (not program state)
    runs,               \* generator runs started
    startCorpus,        \* corpus file as it was when the run started
    startOut,           \* output file as it was when the run started
    llmCalls,           \* the word counts of the texts the model was called with
    faults,             \* the I/O operations of this run that failed or were corrupted
    restored,           \* this run copied the backup back over the corpus
    llmRaised,          \* the batch indexes of this run whose call of the model raised
    generation,         \* a call of generate_extemp_questions on its own: the text
                        \* and the model's response it is given, the value returned
    gresult,            \* how the run ended: "none" | "empty" | "aborted" | "complete";
                        \* "killed" once the process was killed, until the next run
    killedRemaining,    \* the records not yet processed when the process was killed
                        \* inside the rewrite, until the end of the next run
    cleanRuns,          \* every run that has ended so far returned, with no I/O failure
    \* ---- sender process (process_and_send of email_sender.py)
    spc,                \* position of the sender run
    configOk,           \* validate_config()
    max_questions_per_email,
    all_question_blocks,
    sent_links,
    new_question_blocks,
    questions_to_send,
    logIdx,             \* blocks of questions_to_send already handed to write_sent_log
    \* ---- sender history (not program state)
    sendRuns,           \* sender runs started
    sendResult,         \* "none" | "ok" | "fail": the transport call of this run
    transportCalls,     \* number of send_email calls of this run
    logAtStart,         \* sent-log file as it was when the run started
    delivered,          \* the digests (sequences of link ids) send_email accepted
    returned,           \* return value of process_and_send: "none" | "true" | "false"
    selections,         \* what the runs that loaded the two files as they are were
                        \* given and selected: a set of [out, log, max, digest]
    failedDigest        \* the last run that selected a digest, if its transport
                        \* call failed: the digest, the maximum, whether it had
                        \* loaded the two files as they are

gvars == <<gpc, backup_filename, all_articles, batch_size, i, processed_articles,
           remaining_articles, attempt, runs, startCorpus, startOut, llmCalls, faults, restored, llmRaised,
           gresult, generation, killedRemaining, cleanRuns>>
svars == <<spc, configOk, max_questions_per_email, all_question_blocks, sent_links,
           new_question_blocks, questions_to_send, logIdx, sendRuns, sendResult,
           transportCalls, logAtStart, delivered, returned, selections, failedDigest>>
vars == <<corpus, backup, outFile, sentLog, gvars, svars>>

(***************************************************************************)
(* Helpers on sequences.                                                   *)
(***************************************************************************)
Min(a, b) == IF a < b THEN a ELSE b
Max(a, b) == IF a > b THEN a ELSE b

\* s[:n] of Python for n >= 0
Take(s, n) == SubSeq(s, 1, Min(n, Len(s)))
\* s[n:] of Python for n >= 0
Drop(s, n) == SubSeq(s, Min(n, Len(s)) + 1, Len(s))

RECURSIVE Flatten(_)
Flatten(ss) == IF ss = <<>> THEN <<>> ELSE Head(ss) \o Flatten(Tail(ss))

Range(s) == {s[k] : k \in 1..Len(s)}

\* the sequences over S of length 0..n
RECURSIVE SeqsUpTo(_, _)
SeqsUpTo(S, n) ==
    IF n = 0 THEN {<<>>}
    ELSE LET shorter == SeqsUpTo(S, n - 1)
         IN  shorter \cup {Append(s, x) : s \in {t \in shorter : Len(t) = n - 1}, x \in S}

NoFile == [ex |-> FALSE, data |-> <<>>]
FileOf(d) == [ex |-> TRUE, data |-> d]

(***************************************************************************)
(* Text: a sequence of sentences, each [w |-> words, c |-> characters].    *)
(* Lines of a text end at a sentence end, so joining lines with a space    *)
(* concatenates their sentences.                                           *)
(***************************************************************************)
SentWords(s) == s.w
SentChars(s) == s.c
\* len(text.split())
RECURSIVE Words(_)
Words(text) == IF text = <<>> THEN 0 ELSE SentWords(Head(text)) + Words(Tail(text))

RECURSIVE SumChars(_)
SumChars(text) == IF text = <<>> THEN 0 ELSE SentChars(Head(text)) + SumChars(Tail(text))
\* len(text): the sentences and the single spaces between them
Chars(text) == IF text = <<>> THEN 0 ELSE SumChars(text) + Len(text) - 1

\* an article of 20 words: kept by read_articles, too short for the model
ShortText == << [w |-> 20, c |-> 120] >>
\* an article of 200 words
NormalText == << [w |-> 200, c |-> 1200] >>
\* 1050 words, whose first sentence has 100 words
LongShortHeadText == << [w |-> 100, c |-> 600], [w |-> 950, c |-> 5700] >>
\* 1100 words, whose first sentence has 600 words
LongText == << [w |-> 600, c |-> 3600], [w |-> 500, c |-> 3000] >>
\* 8 words in 40 characters: read_articles drops it
TinyText == << [w |-> 8, c |-> 40] >>
\* what a garbled write leaves of a body: still more than 50 characters
GarbledText == << [w |-> 12, c |-> 70] >>

\* the bodies of 150 words or more
SubstantialBodies == {NormalText, LongShortHeadText, LongText}
Bodies == {ShortText} \cup SubstantialBodies

(***************************************************************************)
(* The corpus file: blocks separated by blank lines, each a sequence of    *)
(* lines [k, id, text]: k = "link" ("Link: <id>"), "article" ("Article: "  *)
(* followed by text) or "text" (any other non-empty line).                 *)
(***************************************************************************)
LinkLine(id) == [k |-> "link", id |-> id, text |-> <<>>]
ArticleLine(t) == [k |-> "article", id |-> 0, text |-> t]
TextLine(t) == [k |-> "text", id |-> 0, text |-> t]

\* one pass of the inner loop of read_articles over a line
ParseLine(st, line) ==
    IF line.k = "link"
    THEN [current_link |-> line.id, article_lines |-> <<>>, in_article |-> FALSE]
    ELSE IF line.k = "article"
    THEN [current_link |-> st.current_link,
          article_lines |-> IF line.text # <<>> THEN <<line.text>> ELSE <<>>,
          in_article |-> TRUE]
    ELSE IF st.in_article /\ st.current_link # 0
    THEN [st EXCEPT !.article_lines = Append(@, line.text)]
    ELSE st

RECURSIVE ParseLines(_, _)
ParseLines(st, lines) ==
    IF lines = <<>> THEN st ELSE ParseLines(ParseLine(st, Head(lines)), Tail(lines))

\* a reader that would keep a body however short
ParseBlock_NoMinimum(block) ==
    LET st == ParseLines([current_link |-> 0, article_lines |-> <<>>,
                          in_article |-> FALSE], block)
    IN  IF st.current_link # 0 /\ st.article_lines # <<>>
        THEN << [link |-> st.current_link, article |-> Flatten(st.article_lines)] >>
        ELSE <<>>

\* the articles one block contributes: none or one
ParseBlock(block) ==
    LET st == ParseLines([current_link |-> 0, article_lines |-> <<>>,
                          in_article |-> FALSE], block)
        current_article == Flatten(st.article_lines)
    IN  IF st.current_link # 0 /\ st.article_lines # <<>>
           /\ current_article # <<>> /\ Chars(current_article) > MinArticleChars
        THEN << [link |-> st.current_link, article |-> current_article] >>
        ELSE <<>>

RECURSIVE ParseBlocks(_)
ParseBlocks(blocks) ==
    IF blocks = <<>> THEN <<>> ELSE ParseBlock(Head(blocks)) \o ParseBlocks(Tail(blocks))

\* read_articles(filename) when the read itself does not fail
read_articles(file) == IF file.ex THEN ParseBlocks(file.data) ELSE <<>>

\* a reader that would return a record of its own when reading raises
ReadResults_RecordOnError(file) ==
    {[articles |-> read_articles(file), fault |-> FALSE]}
        \cup (IF file.ex
              THEN {[articles |-> << [link |-> 1, article |-> NormalText] >>, fault |-> TRUE]}
              ELSE {})

\* what read_articles may return: the parse, or [] when reading raises
ReadResults(file) ==
    {[articles |-> read_articles(file), fault |-> FALSE]}
        \cup (IF file.ex THEN {[articles |-> <<>>, fault |-> TRUE]} ELSE {})

\* a writer that would leave out the blank line between two articles
Serialize_NoSeparator(articles) ==
    IF articles = <<>> THEN <<>>
    ELSE << Flatten([k \in 1..Len(articles) |->
                        << LinkLine(articles[k].link), ArticleLine(articles[k].article) >>]) >>

\* the text write_articles_to_file writes for articles
Serialize(articles) ==
    [k \in 1..Len(articles) |->
        << LinkLine(articles[k].link), ArticleLine(articles[k].article) >>]


\* what a write that raises part-way leaves in the file: whole blocks, then
\* possibly the link line of the next block, or its body cut short
PartialWrites(intended) ==
    {Take(intended, k) : k \in 0..(Len(intended) - 1)}
        \cup {Append(Take(intended, k), << intended[k + 1][1] >>) :
                 k \in 0..(Len(intended) - 1)}
        \cup {Append(Take(intended, k), << intended[k + 1][1], ArticleLine(GarbledText) >>) :
                 k \in 0..(Len(intended) - 1)}

\* what a write that reports success may have stored instead of the text:
\* a lost tail, or one body garbled (to more or to fewer than 50 characters)
Corruptions(intended) ==
    {Take(intended, k) : k \in 0..(Len(intended) - 1)}
        \cup {[intended EXCEPT ![p] = << intended[p][1], ArticleLine(t) >>] :
                 p \in 1..Len(intended), t \in {GarbledText, TinyText}}

\* write_articles_to_file(filename, articles): the value returned, the file
\* left behind, and whether the file system misbehaved
WriteOutcomes(old, articles) ==
    LET intended == Serialize(articles)
    IN  {[ok |-> TRUE, file |-> FileOf(intended), fault |-> FALSE]}
            \cup {[ok |-> FALSE, file |-> old, fault |-> TRUE]}
            \cup {[ok |-> FALSE, file |-> FileOf(d), fault |-> TRUE] :
                     d \in PartialWrites(intended) \cup {intended}}
            \cup {[ok |-> TRUE, file |-> FileOf(d), fault |-> TRUE] :
                     d \in Corruptions(intended)}

(***************************************************************************)
(* chunk_text and generate_extemp_questions.                               *)
(***************************************************************************)
RECURSIVE ChunkLoop(_, _, _, _, _)
ChunkLoop(sentences, chunks, current_chunk, current_word_count, max_words) ==
    IF sentences = <<>>
    THEN IF current_chunk # <<>> THEN Append(chunks, current_chunk) ELSE chunks
    ELSE LET sentence == Head(sentences)
             sentence_words == SentWords(sentence)
         IN  IF current_word_count + sentence_words > max_words /\ current_chunk # <<>>
             THEN ChunkLoop(Tail(sentences), Append(chunks, current_chunk),
                            << sentence >>, sentence_words, max_words)
             ELSE ChunkLoop(Tail(sentences), chunks, Append(current_chunk, sentence),
                            current_word_count + sentence_words, max_words)

chunk_text(text, max_words) == ChunkLoop(text, <<>>, <<>>, 0, max_words)

\* the text generate_extemp_questions builds its prompt from
PromptChunk(article_text) ==
    IF Words(article_text) > ChunkCeiling
    THEN chunk_text(article_text, ChunkCeiling)[1]
    ELSE article_text

\* generate_extemp_questions without the check of the chunk's length
ChunkTooShort_Missing(chunk) == FALSE

\* generate_extemp_questions: if len(chunk.split()) < 150: return ""
ChunkTooShort(chunk) == Words(chunk) < MinWords

\* main: if len(article.split()) < 150: ... continue
ArticleTooShort(article) == Words(article) < MinWords

\* The text of the model: which of the markers Q1. Q2. Q3. it holds, and the
\* phrases of the analytical kind it holds, one per occurrence, in order
NoQuestions == [qs |-> {}, phrases |-> <<>>]
\* a text with the three questions and two analytical indicators
AnalyticalQuestions == [qs |-> {1, 2, 3}, phrases |-> << "should", "why" >>]

\* some of the 13 entries of analytical_indicators (lines 252-256)
AnalyticalIndicators == {"should", "how", "why", "how effective"}
\* 'indicator in output_lower': the indicator is a substring of the text, so
\* an occurrence of "how effective" is one of "how" as well
OccursIn(indicator, phrase) ==
    phrase = indicator \/ (indicator = "how" /\ phrase = "how effective")
\* analytical_count (line 259): the indicators of the list found in the text
analytical_count(output) ==
    Cardinality({ind \in AnalyticalIndicators :
                    \E k \in 1..Len(output.phrases) : OccursIn(ind, output.phrases[k])})

\* A response of the model: whether the call raised, and the text
LlmResponses ==
    { [raises |-> FALSE, qs |-> {1, 2, 3}, phrases |-> << "should", "why" >>],
      [raises |-> FALSE, qs |-> {1, 2, 3}, phrases |-> << "how", "how" >>],
      [raises |-> FALSE, qs |-> {1, 2}, phrases |-> << "should", "why" >>],
      [raises |-> TRUE, qs |-> {}, phrases |-> <<>>] }

\* the validation of the model's output in generate_extemp_questions
ValidOutput(r) == r.qs = {1, 2, 3} /\ analytical_count(r) >= 2

\* generate_extemp_questions(article_text) for a response r of the model: the
\* questions returned, the word counts of the calls made to the model, and
\* whether the call raised
generate_extemp_questions(article_text, r) ==
    LET chunk == PromptChunk(article_text)
    IN  IF ChunkTooShort(chunk)
        THEN [questions |-> NoQuestions, calls |-> {}, raised |-> FALSE]
        ELSE [questions |-> IF ~r.raises /\ ValidOutput(r)
                            THEN [qs |-> r.qs, phrases |-> r.phrases]
                            ELSE NoQuestions,
              calls |-> {Words(chunk)}, raised |-> r.raises]

\* what generate_extemp_questions(article_text) may return
GenerateResults(article_text) ==
    {generate_extemp_questions(article_text, r) : r \in LlmResponses}

(***************************************************************************)
(* The output file: sections separated by blank lines, each a sequence of  *)
(* lines [k, id, n].                                                       *)
(***************************************************************************)
OutLine(k, id, n) == [k |-> k, id |-> id, n |-> n]
SepLine == OutLine("sep", 0, 0)

\* the model's text: "Category: ..." and "Qn. ..." pairs, a blank line
\* between two pairs; it starts on the line after the banner
RECURSIVE QuestionSections(_, _)
QuestionSections(qs, n) ==
    IF n > 3 THEN <<>>
    ELSE IF n \in qs
    THEN << << OutLine("category", 0, n), OutLine("q", 0, n) >> >>
             \o QuestionSections(qs, n + 1)
    ELSE QuestionSections(qs, n + 1)

\* an entry that would leave the article's link out
Entry_WithoutLink(link, questions) ==
    << << OutLine("info", link, 0), SepLine, OutLine("banner", 0, 0), SepLine,
          OutLine("placeholder", 0, 0) >>, << SepLine >> >>

\* the text main appends to the output file for one article (lines 331-346)
Entry(link, questions) ==
    LET header == << OutLine("link", link, 0), OutLine("info", link, 0),
                     SepLine, OutLine("banner", 0, 0), SepLine >>
        body == IF questions # NoQuestions
                THEN QuestionSections(questions.qs, 1)
                ELSE << << OutLine("placeholder", 0, 0) >> >>
    IN  << header \o Head(body) >> \o Tail(body) \o << << SepLine >> >>

(***************************************************************************)
(* The generator: main() of extemp_generator.py, one action per step.      *)
(***************************************************************************)
\* the process is gone: its locals, and what the history holds of the run
GenLocalsReset ==
    /\ backup_filename' = FALSE
    /\ all_articles' = <<>>
    /\ batch_size' = 0
    /\ i' = 0
    /\ processed_articles' = <<>>
    /\ remaining_articles' = <<>>
    /\ attempt' = 0
    /\ startCorpus' = NoFile
    /\ startOut' = <<>>
    /\ faults' = {}
    /\ restored' = FALSE
    /\ llmRaised' = {}

\* main, lines 276-284: the run starts with create_backup(input_file)
GenStart ==
    /\ gpc = "idle"
    /\ runs < MaxRuns
    /\ runs' = runs + 1
    /\ startCorpus' = corpus
    /\ startOut' = outFile
    /\ restored' = FALSE
    /\ llmRaised' = {}
    /\ gresult' = "none"
    /\ \/ /\ corpus.ex                      \* shutil.copy2 succeeds
          /\ backup' = corpus
          /\ backup_filename' = TRUE
          /\ faults' = {}
       \/ /\ corpus.ex                      \* shutil.copy2 raises: None
          /\ backup' = backup
          /\ backup_filename' = FALSE
          /\ faults' = {"backup"}
       \/ /\ ~corpus.ex                     \* no input file: None
          /\ backup' = backup
          /\ backup_filename' = FALSE
          /\ faults' = {}
    /\ gpc' = "read"
    /\ UNCHANGED <<corpus, outFile, sentLog, all_articles, batch_size, i,
                   processed_articles, remaining_articles, attempt, llmCalls, generation, killedRemaining, cleanRuns, svars>>

\* main, lines 287-300: read_articles, the empty case, the batch size
GenRead ==
    /\ gpc = "read"
    /\ \E r \in ReadResults(corpus) :
          /\ all_articles' = r.articles
          /\ faults' = faults \cup (IF r.fault THEN {"read"} ELSE {})
          /\ IF r.articles = <<>>
             THEN /\ gpc' = "done"
                  /\ gresult' = "empty"
                  /\ batch_size' = batch_size
             ELSE /\ gpc' = "loop"
                  /\ gresult' = gresult
                  /\ batch_size' = Min(BatchCap, Len(r.articles))
    /\ i' = 0
    /\ processed_articles' = <<>>
    /\ UNCHANGED <<corpus, backup, outFile, sentLog, backup_filename, remaining_articles,
                   attempt, runs, startCorpus, startOut, llmCalls, restored, llmRaised, generation, killedRemaining, cleanRuns, svars>>

\* main, lines 317-322: an article too short is counted as processed and the
\* loop continues with the next index
GenSkip ==
    /\ gpc = "loop"
    /\ i < batch_size
    /\ ArticleTooShort(all_articles[i + 1].article)
    /\ processed_articles' = Append(processed_articles, all_articles[i + 1])
    /\ i' = i + 1
    /\ UNCHANGED <<corpus, backup, outFile, sentLog, gpc, backup_filename, all_articles,
                   batch_size, remaining_articles, attempt, runs, startCorpus, startOut, llmCalls,
                   faults, restored, llmRaised, gresult, generation, killedRemaining, cleanRuns, svars>>

\* main, lines 324-354: generate, append the entry to the output file, count
\* the article as processed, and reach the update point or the next index
GenProcess ==
    /\ gpc = "loop"
    /\ i < batch_size
    /\ ~ArticleTooShort(all_articles[i + 1].article)
    /\ \E g \in GenerateResults(all_articles[i + 1].article) :
          /\ outFile' = outFile \o Entry(all_articles[i + 1].link, g.questions)
          /\ llmCalls' = llmCalls \cup g.calls
          /\ llmRaised' = llmRaised \cup (IF g.raised THEN {i + 1} ELSE {})
    /\ processed_articles' = Append(processed_articles, all_articles[i + 1])
    /\ IF (i + 1) % UpdateEvery = 0 \/ i = batch_size - 1
       THEN /\ gpc' = "update"
            /\ remaining_articles' = Drop(all_articles, Len(processed_articles'))
            /\ attempt' = 0
            /\ i' = i
       ELSE /\ gpc' = "loop"
            /\ i' = i + 1
            /\ UNCHANGED <<remaining_articles, attempt>>
    /\ UNCHANGED <<corpus, backup, sentLog, backup_filename, all_articles, batch_size,
                   runs, startCorpus, startOut, faults, restored, gresult, generation, killedRemaining, cleanRuns, svars>>

\* one attempt of the rewrite failed (lines 371-375): retry, or give up after
\* max_retries attempts
AttemptFailed ==
    /\ attempt' = attempt + 1
    /\ gpc' = IF attempt + 1 < max_retries THEN "update" ELSE "restore"

\* main, line 361: write_articles_to_file(input_file, remaining_articles)
GenWrite ==
    /\ gpc = "update"
    /\ \E o \in WriteOutcomes(corpus, remaining_articles) :
          /\ corpus' = o.file
          /\ faults' = faults \cup (IF o.fault THEN {"write"} ELSE {})
          /\ IF o.ok
             THEN gpc' = "verify" /\ attempt' = attempt
             ELSE AttemptFailed
    /\ UNCHANGED <<backup, outFile, sentLog, backup_filename, all_articles, batch_size, i,
                   processed_articles, remaining_articles, runs, startCorpus, startOut, llmCalls,
                   restored, llmRaised, gresult, generation, killedRemaining, cleanRuns, svars>>

\* main, lines 363-369: re-read the file and compare the number of articles
GenVerify ==
    /\ gpc = "verify"
    /\ \E r \in ReadResults(corpus) :
          /\ faults' = faults \cup (IF r.fault THEN {"read"} ELSE {})
          /\ IF Len(r.articles) = Len(remaining_articles)
             THEN /\ gpc' = "loop"          \* update_success: break, next index
                  /\ i' = i + 1
                  /\ attempt' = attempt
             ELSE /\ AttemptFailed
                  /\ i' = i
    /\ UNCHANGED <<corpus, backup, outFile, sentLog, backup_filename, all_articles,
                   batch_size, processed_articles, remaining_articles, runs, startCorpus, startOut,
                   llmCalls, restored, llmRaised, gresult, generation, killedRemaining, cleanRuns, svars>>

\* main, lines 375-379: the update failed: restore_from_backup and return
GenRestore ==
    /\ gpc = "restore"
    /\ \/ /\ backup_filename /\ backup.ex   \* shutil.copy2 succeeds
          /\ corpus' = backup
          /\ restored' = TRUE
          /\ faults' = faults
       \/ /\ backup_filename /\ backup.ex   \* shutil.copy2 raises
          /\ corpus' = corpus
          /\ restored' = restored
          /\ faults' = faults \cup {"restore"}
       \/ /\ ~(backup_filename /\ backup.ex)
          /\ UNCHANGED <<corpus, restored, faults>>
    /\ gpc' = "done"
    /\ gresult' = "aborted"
    /\ UNCHANGED <<backup, outFile, sentLog, backup_filename, all_articles, batch_size, i,
                   processed_articles, remaining_articles, attempt, runs, startCorpus, startOut,
                   llmCalls, llmRaised, generation, killedRemaining, cleanRuns, svars>>

\* the for loop is over (line 304)
GenLoopEnd ==
    /\ gpc = "loop"
    /\ i >= batch_size
    /\ gpc' = "final"
    /\ UNCHANGED <<corpus, backup, outFile, sentLog, backup_filename, all_articles,
                   batch_size, i, processed_articles, remaining_articles, attempt, runs,
                   startCorpus, startOut, llmCalls, faults, restored, llmRaised, gresult, generation, killedRemaining, cleanRuns, svars>>

\* main, lines 384-403: the final verification and the clean-up of the backup
GenFinal ==
    /\ gpc = "final"
    /\ \E r \in ReadResults(corpus) :
          LET expected_remaining == Len(all_articles) - Len(processed_articles)
              actual_remaining == Len(r.articles)
          IN  \/ /\ backup_filename /\ expected_remaining = actual_remaining
                 /\ backup' = NoFile        \* os.remove succeeds
                 /\ faults' = faults \cup (IF r.fault THEN {"read"} ELSE {})
              \/ /\ backup_filename /\ expected_remaining = actual_remaining
                 /\ backup' = backup        \* os.remove raises
                 /\ faults' = faults \cup {"remove"} \cup (IF r.fault THEN {"read"} ELSE {})
              \/ /\ ~(backup_filename /\ expected_remaining = actual_remaining)
                 /\ backup' = backup
                 /\ faults' = faults \cup (IF r.fault THEN {"read"} ELSE {})
    /\ gpc' = "done"
    /\ gresult' = "complete"
    /\ UNCHANGED <<corpus, outFile, sentLog, backup_filename, all_articles, batch_size, i,
                   processed_articles, remaining_articles, attempt, runs, startCorpus, startOut,
                   llmCalls, restored, llmRaised, generation, killedRemaining, cleanRuns, svars>>

\* main returns and the process exits
GenExit ==
    /\ gpc = "done"
    /\ gpc' = "idle"
    /\ GenLocalsReset
    /\ gresult' = "none"
    /\ killedRemaining' = <<>>
    /\ cleanRuns' = (cleanRuns /\ faults = {})
    /\ UNCHANGED <<corpus, backup, outFile, sentLog, runs, llmCalls, generation, svars>>

\* what the output file holds of an entry whose writes (lines 331-345) were
\* cut before out.flush(): the first lines, handed over when the buffer filled
PartialEntry(link) == << << OutLine("link", link, 0), OutLine("info", link, 0) >> >>

\* a kill that would lose the entries written since the output file was opened
GenKill_Unflushed ==
    /\ gpc \in {"read", "loop", "update", "verify", "restore", "final"}
    /\ gpc' = "idle"
    /\ GenLocalsReset
    /\ gresult' = "killed"
    /\ outFile' = startOut
    /\ killedRemaining' = <<>>
    /\ cleanRuns' = FALSE
    /\ UNCHANGED <<corpus, backup, sentLog, runs, llmCalls, generation, svars>>

\* the process is killed outside a write to the corpus file: what was flushed
\* to the output file stays, and a part of the entry being written may follow
GenKill ==
    /\ gpc \in {"read", "loop", "update", "verify", "restore", "final"}
    /\ gpc' = "idle"
    /\ GenLocalsReset
    /\ gresult' = "killed"
    /\ \/ outFile' = outFile
       \/ /\ gpc = "loop" /\ i < batch_size
          /\ ~ArticleTooShort(all_articles[i + 1].article)
          /\ outFile' = outFile \o PartialEntry(all_articles[i + 1].link)
    /\ killedRemaining' = <<>>
    /\ cleanRuns' = FALSE
    /\ UNCHANGED <<corpus, backup, sentLog, runs, llmCalls, generation, svars>>

\* the process is killed inside write_articles_to_file: the file is left
\* truncated, or with a part of the text
GenKillInWrite ==
    /\ gpc = "update"
    /\ \E d \in PartialWrites(Serialize(remaining_articles)) \cup {<<>>} :
          corpus' = FileOf(d)
    /\ gpc' = "idle"
    /\ GenLocalsReset
    /\ gresult' = "killed"
    /\ killedRemaining' = remaining_articles
    /\ cleanRuns' = FALSE
    /\ UNCHANGED <<backup, outFile, sentLog, runs, llmCalls, generation, svars>>

GenNext ==
    \/ GenStart
    \/ GenRead
    \/ GenSkip
    \/ GenProcess
    \/ GenWrite
    \/ GenVerify
    \/ GenRestore
    \/ GenLoopEnd
    \/ GenFinal
    \/ GenExit

(***************************************************************************)
(* Initial states.                                                         *)
(***************************************************************************)
\* the articles of an initial corpus: links 1..n, in file order
InitialArticles ==
    {b \in UNION {[1..n -> Bodies] : n \in 0..MaxCorpus} :
        Cardinality({k \in DOMAIN b : b[k] \in SubstantialBodies}) <= MaxSubstantial}

CorpusOf(bodies) ==
    FileOf([k \in 1..Len(bodies) |-> << LinkLine(k), ArticleLine(bodies[k]) >>])

\* no call of generate_extemp_questions on its own
NoGeneration == [text |-> <<>>, response |-> [raises |-> TRUE, qs |-> {}, phrases |-> <<>>],
                 called |-> FALSE, returned |-> NoQuestions]

GenIdle ==
    /\ gpc = "idle"
    /\ backup_filename = FALSE
    /\ all_articles = <<>>
    /\ batch_size = 0
    /\ i = 0
    /\ processed_articles = <<>>
    /\ remaining_articles = <<>>
    /\ attempt = 0
    /\ runs = 0
    /\ startCorpus = NoFile
    /\ startOut = <<>>
    /\ llmCalls = {}
    /\ faults = {}
    /\ restored = FALSE
    /\ llmRaised = {}
    /\ generation = NoGeneration
    /\ gresult = "none"
    /\ killedRemaining = <<>>
    /\ cleanRuns = TRUE

\* no transport failure in the last run
NoFailedDigest == [failed |-> FALSE, digest |-> <<>>, max |-> 0, loaded |-> FALSE]

SendIdle ==
    /\ spc = "idle"
    /\ configOk = TRUE
    /\ max_questions_per_email = 10
    /\ all_question_blocks = <<>>
    /\ sent_links = {}
    /\ new_question_blocks = <<>>
    /\ questions_to_send = <<>>
    /\ logIdx = 0
    /\ sendRuns = 0
    /\ sendResult = "none"
    /\ transportCalls = 0
    /\ logAtStart = NoFile
    /\ delivered = <<>>
    /\ returned = "none"
    /\ selections = {}
    /\ failedDigest = NoFailedDigest

\* the generator's runs, from any corpus file: no output yet, no backup
InitGen ==
    /\ corpus \in {NoFile} \cup {CorpusOf(b) : b \in InitialArticles}
    /\ backup = NoFile
    /\ outFile = <<>>
    /\ sentLog = NoFile
    /\ GenIdle
    /\ SendIdle

\* completed generator runs, with I/O faults
SpecGen == InitGen /\ [][GenNext]_vars

\* what the p-th blank-line delimited block of a corpus file may be: an
\* article of 200 or of 20 words, a body of 40 characters, a body of two
\* lines, or two link/body pairs with no blank line between them
RawBlocks(p) ==
    { << LinkLine(p), ArticleLine(NormalText) >>,
      << LinkLine(p), ArticleLine(ShortText) >>,
      << LinkLine(p), ArticleLine(TinyText) >>,
      << LinkLine(p), ArticleLine(TinyText), TextLine(ShortText) >>,
      << LinkLine(p), ArticleLine(NormalText), LinkLine(p + 10), ArticleLine(NormalText) >> }

\* corpus files of up to MaxRawBlocks such blocks
RawCorpora ==
    UNION {{d \in [1..n -> UNION {RawBlocks(p) : p \in 1..n}] :
               \A p \in 1..n : d[p] \in RawBlocks(p)} : n \in 0..MaxRawBlocks}

\* the generator's runs from a corpus file of any content
InitGenRaw ==
    /\ corpus \in {FileOf(d) : d \in RawCorpora}
    /\ backup = NoFile
    /\ outFile = <<>>
    /\ sentLog = NoFile
    /\ GenIdle
    /\ SendIdle

SpecGenRaw == InitGenRaw /\ [][GenNext]_vars

\* generator runs that may be killed at any step
GenCrashNext == GenNext \/ GenKill \/ GenKillInWrite
SpecGenCrash == InitGen /\ [][GenCrashNext]_vars

\* the records written and read back: any links, in any order, with bodies
\* of one line and more than 50 characters
WellFormedRecords ==
    SeqsUpTo([link : 1..3, article : Bodies], MaxRecords)

\* write_articles_to_file followed by read_articles, for any records
InitRoundTrip ==
    /\ corpus = NoFile
    /\ backup = NoFile
    /\ outFile = <<>>
    /\ sentLog = NoFile
    /\ SendIdle
    /\ gpc = "write"
    /\ backup_filename = FALSE
    /\ all_articles = <<>>
    /\ batch_size = 0
    /\ i = 0
    /\ processed_articles = <<>>
    /\ remaining_articles \in WellFormedRecords
    /\ attempt = 0
    /\ runs = 0
    /\ startCorpus = NoFile
    /\ startOut = <<>>
    /\ llmCalls = {}
    /\ faults = {}
    /\ restored = FALSE
    /\ llmRaised = {}
    /\ generation = NoGeneration
    /\ gresult = "none"
    /\ killedRemaining = <<>>
    /\ cleanRuns = TRUE

\* write_articles_to_file(filename, articles) returns True and the file
\* holds what was written
WriteArticles ==
    /\ gpc = "write"
    /\ \E o \in WriteOutcomes(corpus, remaining_articles) :
          /\ o.ok /\ ~o.fault
          /\ corpus' = o.file
    /\ gpc' = "reread"
    /\ UNCHANGED <<backup, outFile, sentLog, backup_filename, all_articles, batch_size, i,
                   processed_articles, remaining_articles, attempt, runs, startCorpus, startOut,
                   llmCalls, faults, restored, llmRaised, gresult, generation, killedRemaining, cleanRuns, svars>>

\* read_articles(filename) of the file just written
ReadBack ==
    /\ gpc = "reread"
    /\ \E r \in ReadResults(corpus) :
          /\ ~r.fault
          /\ all_articles' = r.articles
    /\ gpc' = "compared"
    /\ UNCHANGED <<corpus, backup, outFile, sentLog, backup_filename, batch_size, i,
                   processed_articles, remaining_articles, attempt, runs, startCorpus, startOut,
                   llmCalls, faults, restored, llmRaised, gresult, generation, killedRemaining, cleanRuns, svars>>

RoundTripNext == WriteArticles \/ ReadBack

SpecRoundTrip == InitRoundTrip /\ [][RoundTripNext]_vars

\* the texts the model can answer with: any of the three markers, and up to
\* MaxPhrases occurrences of analytical phrases
ModelOutputs ==
    [qs : SUBSET {1, 2, 3},
     phrases : SeqsUpTo({"should", "how", "why", "how effective"}, MaxPhrases)]

\* the responses of the model: any text, or an exception
AllResponses ==
    {[raises |-> FALSE, qs |-> o.qs, phrases |-> o.phrases] : o \in ModelOutputs}
        \cup {[raises |-> TRUE, qs |-> {}, phrases |-> <<>>]}

\* generate_extemp_questions on its own, for any body and any response
InitGenerate ==
    /\ corpus = NoFile
    /\ backup = NoFile
    /\ outFile = <<>>
    /\ sentLog = NoFile
    /\ SendIdle
    /\ gpc = "idle"
    /\ backup_filename = FALSE
    /\ all_articles = <<>>
    /\ batch_size = 0
    /\ i = 0
    /\ processed_articles = <<>>
    /\ remaining_articles = <<>>
    /\ attempt = 0
    /\ runs = 0
    /\ startCorpus = NoFile
    /\ startOut = <<>>
    /\ llmCalls = {}
    /\ faults = {}
    /\ restored = FALSE
    /\ llmRaised = {}
    /\ gresult = "none"
    /\ killedRemaining = <<>>
    /\ cleanRuns = TRUE
    /\ generation \in [text : Bodies, response : AllResponses,
                        called : {FALSE}, returned : {NoQuestions}]

\* generate_extemp_questions(article_text) (lines 212-272) returns
Generate ==
    /\ ~generation.called
    /\ generation.text # <<>>
    /\ LET g == generate_extemp_questions(generation.text, generation.response)
       IN  /\ generation' = [generation EXCEPT !.called = TRUE, !.returned = g.questions]
           /\ llmCalls' = llmCalls \cup g.calls
    /\ UNCHANGED <<corpus, backup, outFile, sentLog, gpc, backup_filename, all_articles,
                   batch_size, i, processed_articles, remaining_articles, attempt, runs,
                   startCorpus, startOut, faults, restored, llmRaised, gresult, killedRemaining, cleanRuns, svars>>

SpecGenerate == InitGenerate /\ [][Generate]_vars


(***************************************************************************)
(* The sender: read_extemp_questions, read_sent_log, write_sent_log and    *)
(* process_and_send of email_sender.py.                                    *)
(***************************************************************************)
\* len(line) of a line of the output file
LineChars(line) ==
    CASE line.k = "sep" -> 80
      [] line.k = "banner" -> 38
      [] line.k = "placeholder" -> 63
      [] line.k = "category" -> 18
      [] line.k = "q" -> 60
      [] line.k = "link" -> 30
      [] line.k = "info" -> 40
      [] OTHER -> 0

RECURSIVE SumLineChars(_)
SumLineChars(lines) ==
    IF lines = <<>> THEN 0 ELSE LineChars(Head(lines)) + SumLineChars(Tail(lines))

\* len('\n'.join(content_lines))
ContentChars(content) ==
    IF content = <<>> THEN 0 ELSE SumLineChars(content) + Len(content) - 1

\* current_block = None
NoBlock == [link |-> 0, info |-> FALSE, content |-> <<>>, content_lines |-> <<>>]

\* a parser that would save, at a new "Link: " line, the block before it
\* with the content lines collected so far
ParseOutLine_SavesPrevious(st, line) ==
    IF line.k = "link"
    THEN [question_blocks |->
              IF st.current_block # NoBlock /\ st.current_block.content_lines # <<>>
              THEN Append(st.question_blocks,
                          [st.current_block EXCEPT !.content = st.current_block.content_lines])
              ELSE st.question_blocks,
          current_block |-> [link |-> line.id, info |-> FALSE, content |-> <<>>,
                             content_lines |-> <<>>]]
    ELSE IF line.k = "info" /\ st.current_block # NoBlock
    THEN [st EXCEPT !.current_block.info = TRUE]
    ELSE IF st.current_block # NoBlock
    THEN [st EXCEPT !.current_block.content_lines = Append(@, line)]
    ELSE st

\* one pass of the inner loop of read_extemp_questions over a line (lines
\* 89-110)
ParseOutLine(st, line) ==
    IF line.k = "link"
    THEN [question_blocks |->
              IF st.current_block # NoBlock /\ st.current_block.link # 0
                 /\ st.current_block.content # <<>>
              THEN Append(st.question_blocks, st.current_block)
              ELSE st.question_blocks,
          current_block |-> [link |-> line.id, info |-> FALSE, content |-> <<>>,
                             content_lines |-> <<>>]]
    ELSE IF line.k = "info" /\ st.current_block # NoBlock
    THEN [st EXCEPT !.current_block.info = TRUE]
    ELSE IF st.current_block # NoBlock
    THEN [st EXCEPT !.current_block.content_lines = Append(@, line)]
    ELSE st

\* for line in lines (of one section)
RECURSIVE ParseOutLines(_, _, _)
ParseOutLines(st, lines, k) ==
    IF k > Len(lines) THEN st
    ELSE LET next == ParseOutLine(st, lines[k])
         IN  IF next.current_block = NoBlock
             THEN ParseOutLines(next, lines, k + 1)
             ELSE ParseOutLines(next, lines, k + 1)

\* for section in sections
RECURSIVE ParseSections(_, _, _)
ParseSections(st, sections, k) ==
    IF k > Len(sections) THEN st
    ELSE LET next == ParseOutLines(st, sections[k], 1)
         IN  IF next.current_block = NoBlock
             THEN ParseSections(next, sections, k + 1)
             ELSE ParseSections(next, sections, k + 1)

\* lines 112-116: the last block is kept if it has content lines
QuestionBlocks(sections) ==
    LET st == ParseSections([question_blocks |-> <<>>, current_block |-> NoBlock],
                            sections, 1)
        last == st.current_block
    IN  IF last # NoBlock /\ last.link # 0 /\ last.content_lines # <<>>
        THEN Append(st.question_blocks, [last EXCEPT !.content = last.content_lines])
        ELSE st.question_blocks

\* re.search(r'Q[1-3]\.', content)
HasQuestionMarker(content) ==
    \E k \in 1..Len(content) : content[k].k = "q" /\ content[k].n \in 1..3

\* a clean-up that would keep every block
ValidBlock_KeepsAll(block) == TRUE

\* lines 118-127: a block is valid if it has a question marker and more than
\* 50 characters of content
ValidBlock(block) ==
    HasQuestionMarker(block.content) /\ ContentChars(block.content) > MinContentChars

RECURSIVE ValidBlocks(_)
ValidBlocks(blocks) ==
    IF blocks = <<>> THEN <<>>
    ELSE (IF ValidBlock(Head(blocks)) THEN << Head(blocks) >> ELSE <<>>)
             \o ValidBlocks(Tail(blocks))

\* read_extemp_questions() when the read itself does not fail: an empty file
\* has no lines and gives no block
read_extemp_questions(sections) == ValidBlocks(QuestionBlocks(sections))

\* what read_extemp_questions may return: the parse, or [] when reading raises
QuestionReadResults(sections) ==
    {read_extemp_questions(sections)} \cup {<<>>}

\* a line of the sent log: the link in the form "Link: <id>" or the bare <id>
PrefixedLine(id) == [form |-> "link", id |-> id]
BareLine(id) == [form |-> "bare", id |-> id]

\* a load that would keep every line as it is written in the file
NormalizeLogLine_AsWritten(line) == line

\* read_sent_log, lines 147-155: every line is brought to the "Link: " form
NormalizeLogLine(line) ==
    IF line.form = "link" THEN line ELSE PrefixedLine(line.id)

\* a load in which a second line of a link would cancel the first
read_sent_log_Cancelling(log) ==
    {NormalizeLogLine(log.data[k]) : k \in
        {j \in 1..Len(log.data) :
            Cardinality({m \in 1..Len(log.data) :
                NormalizeLogLine(log.data[m]) = NormalizeLogLine(log.data[j])}) % 2 = 1}}

\* read_sent_log() when the read itself does not fail
read_sent_log(log) ==
    IF ~log.ex THEN {} ELSE {NormalizeLogLine(log.data[k]) : k \in 1..Len(log.data)}

\* what read_sent_log may return: the set of links, or set() when reading an
\* existing file raises (lines 159-161)
SentLogReadResults(log) ==
    {read_sent_log(log)} \cup (IF log.ex THEN {{}} ELSE {})

\* the 'link' of a block as a string: the stripped "Link: " line
BlockLink(block) == PrefixedLine(block.link)

\* write_sent_log if the log were opened with 'w' and not with 'a'
AppendSentLog_Truncating(log, link) == FileOf(<< link >>)

\* write_sent_log if the line were put at the start of the file
AppendSentLog_Prepending(log, link) == FileOf(<< link >> \o log.data)

\* write_sent_log(link) when the write does not fail: one line is appended
\* (the file is created if it does not exist)
AppendSentLog(log, link) == FileOf(Append(log.data, link))

\* a filter whose result depends on more than its inputs: on the count of runs
NewBlocks_ByRunCount(blocks, sent) ==
    IF sendRuns % 2 = 1
    THEN SelectSeq(blocks, LAMBDA b : BlockLink(b) \notin sent)
    ELSE <<>>

\* process_and_send, lines 839-849: the blocks whose link is not in sent_links
RECURSIVE NewBlocks(_, _)
NewBlocks(blocks, sent) ==
    IF blocks = <<>> THEN <<>>
    ELSE (IF BlockLink(Head(blocks)) \notin sent THEN << Head(blocks) >> ELSE <<>>)
             \o NewBlocks(Tail(blocks), sent)

\* a slice that would keep the end of the list and not its start
PySlice_FromEnd(s, n) == Drop(s, Len(s) - Min(Max(n, 0), Len(s)))

\* s[:n] of Python for any integer n
PySlice(s, n) == IF n >= 0 THEN Take(s, n) ELSE Take(s, Max(Len(s) + n, 0))

\* the values of MAX_QUESTIONS_PER_EMAIL explored
MaxQuestionsChoices == {1, 2}

\* the process is gone: its locals, and what the history holds of the run
SendLocalsReset ==
    /\ configOk' = TRUE
    /\ max_questions_per_email' = 10
    /\ all_question_blocks' = <<>>
    /\ sent_links' = {}
    /\ new_question_blocks' = <<>>
    /\ questions_to_send' = <<>>
    /\ logIdx' = 0
    /\ sendResult' = "none"
    /\ transportCalls' = 0
    /\ logAtStart' = NoFile
    /\ returned' = "none"

\* process_and_send, lines 826-833: validate the configuration and read the
\* two files
SendStart ==
    /\ spc = "idle"
    /\ sendRuns < MaxSendRuns
    /\ sendRuns' = sendRuns + 1
    /\ logAtStart' = sentLog
    /\ sendResult' = "none"
    /\ transportCalls' = 0
    /\ logIdx' = 0
    /\ \E ok \in BOOLEAN, m \in MaxQuestionsChoices :
          /\ configOk' = ok
          /\ max_questions_per_email' = m
          /\ IF ~ok
             THEN /\ spc' = "done"
                  /\ returned' = "false"
                  /\ UNCHANGED <<all_question_blocks, sent_links>>
             ELSE /\ all_question_blocks' \in QuestionReadResults(outFile)
                  /\ sent_links' \in SentLogReadResults(sentLog)
                  /\ spc' = "select"
                  /\ returned' = "none"
    /\ UNCHANGED <<corpus, backup, outFile, sentLog, gvars, new_question_blocks,
                   questions_to_send, delivered, selections, failedDigest>>

\* the run loaded what the two files hold (no read failed)
Loaded ==
    /\ all_question_blocks = read_extemp_questions(outFile)
    /\ sent_links = read_sent_log(sentLog)

\* the history after a selection: what the run was given and what it selected
Selected(digest) ==
    IF Loaded
    THEN selections \cup {[out |-> outFile, log |-> sentLog,
                           max |-> max_questions_per_email, digest |-> digest]}
    ELSE selections

\* process_and_send, lines 835-868: no block at all, the filter on the sent
\* links, nothing new, and the selection of the digest
SendSelect ==
    /\ spc = "select"
    /\ LET new == NewBlocks(all_question_blocks, sent_links)
       IN  IF all_question_blocks = <<>>
           THEN /\ spc' = "done"
                /\ returned' = "false"
                /\ selections' = Selected(<<>>)
                /\ UNCHANGED <<new_question_blocks, questions_to_send>>
           ELSE IF new = <<>>
           THEN /\ spc' = "done"
                /\ returned' = "true"
                /\ new_question_blocks' = new
                /\ selections' = Selected(<<>>)
                /\ UNCHANGED questions_to_send
           ELSE /\ spc' = "send"
                /\ returned' = "none"
                /\ new_question_blocks' = new
                /\ questions_to_send' = PySlice(new, max_questions_per_email)
                /\ selections' = Selected(PySlice(new, max_questions_per_email))
    /\ UNCHANGED <<corpus, backup, outFile, sentLog, gvars, configOk,
                   max_questions_per_email, all_question_blocks, sent_links, logIdx,
                   sendRuns, sendResult, transportCalls, logAtStart, delivered,
                   failedDigest>>

\* process_and_send if the links were logged whatever send_email returned
SendEmail_IgnoresResult ==
    /\ spc = "send"
    /\ transportCalls' = transportCalls + 1
    /\ \/ /\ sendResult' = "ok"
          /\ delivered' = Append(delivered, [k \in 1..Len(questions_to_send) |->
                                                questions_to_send[k].link])
       \/ /\ sendResult' = "fail"
          /\ delivered' = delivered
    /\ spc' = "log"
    /\ returned' = returned
    /\ failedDigest' = NoFailedDigest
    /\ UNCHANGED <<selections, corpus, backup, outFile, sentLog, gvars, configOk,
                   max_questions_per_email, all_question_blocks, sent_links,
                   new_question_blocks, questions_to_send, logIdx, sendRuns, logAtStart>>

\* a transport that would deliver the first block of a digest before failing
SendEmail_PartialOnFailure ==
    /\ spc = "send"
    /\ transportCalls' = transportCalls + 1
    /\ \/ /\ sendResult' = "ok"
          /\ delivered' = Append(delivered, [k \in 1..Len(questions_to_send) |->
                                                questions_to_send[k].link])
          /\ spc' = "log"
          /\ returned' = returned
          /\ failedDigest' = NoFailedDigest
       \/ /\ sendResult' = "fail"
          /\ delivered' = Append(delivered, << questions_to_send[1].link >>)
          /\ spc' = "done"
          /\ returned' = "false"
          /\ failedDigest' = [failed |-> TRUE, digest |-> questions_to_send,
                               max |-> max_questions_per_email, loaded |-> Loaded]
    /\ UNCHANGED <<selections, corpus, backup, outFile, sentLog, gvars, configOk,
                   max_questions_per_email, all_question_blocks, sent_links,
                   new_question_blocks, questions_to_send, logIdx, sendRuns, logAtStart>>

\* process_and_send, lines 885 and 897-899: the single call of send_email
SendEmail ==
    /\ spc = "send"
    /\ transportCalls' = transportCalls + 1
    /\ \/ /\ sendResult' = "ok"
          /\ delivered' = Append(delivered, [k \in 1..Len(questions_to_send) |->
                                                questions_to_send[k].link])
          /\ spc' = "log"
          /\ returned' = returned
          /\ failedDigest' = NoFailedDigest
       \/ /\ sendResult' = "fail"
          /\ delivered' = delivered
          /\ spc' = "done"
          /\ returned' = "false"
          /\ failedDigest' = [failed |-> TRUE, digest |-> questions_to_send,
                               max |-> max_questions_per_email, loaded |-> Loaded]
    /\ UNCHANGED <<selections, corpus, backup, outFile, sentLog, gvars, configOk,
                   max_questions_per_email, all_question_blocks, sent_links,
                   new_question_blocks, questions_to_send, logIdx, sendRuns, logAtStart>>

\* process_and_send, lines 888-889: write_sent_log for the next block of the
\* digest; an error of the write is printed and the loop goes on
SendLog ==
    /\ spc = "log"
    /\ logIdx < Len(questions_to_send)
    /\ \/ sentLog' = AppendSentLog(sentLog, BlockLink(questions_to_send[logIdx + 1]))
       \/ sentLog' = sentLog
    /\ logIdx' = logIdx + 1
    /\ UNCHANGED <<corpus, backup, outFile, gvars, spc, configOk, max_questions_per_email,
                   all_question_blocks, sent_links, new_question_blocks,
                   questions_to_send, sendRuns, sendResult, transportCalls, logAtStart,
                   delivered, returned, selections, failedDigest>>

\* process_and_send, lines 891-896: every block was handed to write_sent_log
SendReturn ==
    /\ spc = "log"
    /\ logIdx >= Len(questions_to_send)
    /\ spc' = "done"
    /\ returned' = "true"
    /\ UNCHANGED <<corpus, backup, outFile, sentLog, gvars, configOk,
                   max_questions_per_email, all_question_blocks, sent_links,
                   new_question_blocks, questions_to_send, logIdx, sendRuns, sendResult,
                   transportCalls, logAtStart, delivered, selections, failedDigest>>

\* process_and_send has returned and the process exits
SendExit ==
    /\ spc = "done"
    /\ spc' = "idle"
    /\ SendLocalsReset
    /\ failedDigest' = IF sendResult = "fail" \/ ~configOk
                       THEN failedDigest ELSE NoFailedDigest
    /\ UNCHANGED <<corpus, backup, outFile, sentLog, gvars, sendRuns, delivered,
                   selections>>

\* the process is killed after the files were read
SendKill ==
    /\ spc \in {"select", "send", "log"}
    /\ spc' = "idle"
    /\ SendLocalsReset
    /\ failedDigest' = IF spc = "select" THEN failedDigest ELSE NoFailedDigest
    /\ UNCHANGED <<corpus, backup, outFile, sentLog, gvars, sendRuns, delivered,
                   selections>>

SendNext ==
    \/ SendStart
    \/ SendSelect
    \/ SendEmail
    \/ SendLog
    \/ SendReturn
    \/ SendExit
    \/ SendKill

\* the links of the entries of an initial output file
EntryLinks == 1..3
\* what the generator got for an entry: valid questions, or none
EntryQuestions == {AnalyticalQuestions, NoQuestions}

EntryOf(e) == Entry(e.link, e.questions)

\* the output files the generator can have written: up to MaxEntries entries
InitialOutFiles ==
    {Flatten([k \in 1..Len(es) |-> EntryOf(es[k])]) :
        es \in SeqsUpTo([link : EntryLinks, questions : EntryQuestions], MaxEntries)}

\* the sent logs of earlier runs, in either form of line
InitialSentLogs ==
    {NoFile, FileOf(<<>>), FileOf(<< PrefixedLine(1) >>), FileOf(<< BareLine(2) >>),
     FileOf(<< BareLine(1), PrefixedLine(3) >>)}

\* the sender's runs, over any output file and sent log
InitSend ==
    /\ corpus = NoFile
    /\ backup = NoFile
    /\ outFile \in InitialOutFiles
    /\ sentLog \in InitialSentLogs
    /\ GenIdle
    /\ SendIdle

SpecSend == InitSend /\ [][SendNext]_vars

\* the block read_extemp_questions returns for a complete entry of a link
BlockOf(link) ==
    read_extemp_questions(EntryOf([link |-> link,
                                   questions |-> AnalyticalQuestions]))[1]

\* the lists of valid blocks the selection can be given
ParsedBlockLists == SeqsUpTo({BlockOf(l) : l \in EntryLinks}, MaxEntries)

\* the selection of process_and_send (lines 835-868) as a function of what the
\* two reads returned and of the maximum: a run that has just read the files
InitSelect ==
    /\ corpus = NoFile
    /\ backup = NoFile
    /\ outFile = <<>>
    /\ sentLog \in InitialSentLogs
    /\ GenIdle
    /\ spc = "select"
    /\ configOk = TRUE
    /\ max_questions_per_email \in MaxQuestionsChoices
    /\ all_question_blocks \in ParsedBlockLists
    /\ sent_links = read_sent_log(sentLog)
    /\ new_question_blocks = <<>>
    /\ questions_to_send = <<>>
    /\ logIdx = 0
    /\ sendRuns = 1
    /\ sendResult = "none"
    /\ transportCalls = 0
    /\ logAtStart = sentLog
    /\ delivered = <<>>
    /\ returned = "none"
    /\ selections = {}
    /\ failedDigest = NoFailedDigest

\* the rest of the run, from the selection on
SelectNext ==
    \/ SendSelect
    \/ SendEmail
    \/ SendLog
    \/ SendReturn
    \/ SendExit

SpecSelect == InitSelect /\ [][SelectNext]_vars

\* the values MAX_QUESTIONS_PER_EMAIL can be given: int() of the variable of
\* the environment, of any sign
AnyMaxChoices == {-1, 0, 1, 2}

\* the selection for any configured maximum
InitSelectAnyMax ==
    /\ corpus = NoFile
    /\ backup = NoFile
    /\ outFile = <<>>
    /\ sentLog \in InitialSentLogs
    /\ GenIdle
    /\ spc = "select"
    /\ configOk = TRUE
    /\ max_questions_per_email \in AnyMaxChoices
    /\ all_question_blocks \in ParsedBlockLists
    /\ sent_links = read_sent_log(sentLog)
    /\ new_question_blocks = <<>>
    /\ questions_to_send = <<>>
    /\ logIdx = 0
    /\ sendRuns = 1
    /\ sendResult = "none"
    /\ transportCalls = 0
    /\ logAtStart = sentLog
    /\ delivered = <<>>
    /\ returned = "none"
    /\ selections = {}
    /\ failedDigest = NoFailedDigest

SpecSelectAnyMax == InitSelectAnyMax /\ [][SelectNext]_vars

\* the two pipelines side by side: the sender reads what the generator wrote
Init == InitGen \/ InitSend
Next == GenCrashNext \/ SendNext
Spec == Init /\ [][Next]_vars

(***************************************************************************)
(* Claims about the generator.                                             *)
(***************************************************************************)
\* the articles the corpus file held when the run started
StartRecords == read_articles(startCorpus)
\* the articles expected to remain after a run: all but the batch
ExpectedSuffix == Drop(StartRecords, Min(BatchCap, Len(StartRecords)))

\* C4: if the rewrite of the corpus ultimately fails in a run, the corpus
\* file after the run equals the corpus file before the run (full rollback).
C4_FailedRewriteRollsBack ==
    (gpc = "done" /\ gresult = "aborted") => corpus = startCorpus

\* C5: a run that ends without I/O failure leaves in the corpus file exactly
\* the last n - min(b, n) of the n records it parsed, in their order,
\* whatever the outcome of each processed record.
C5_RunLeavesSuffix ==
    (gpc = "done" /\ gresult = "complete" /\ faults = {})
        => read_articles(corpus) = Drop(all_articles, Min(BatchCap, Len(all_articles)))

\* C6: every run without I/O failure on a non-empty corpus strictly reduces
\* the number of records of the corpus file (so repeated runs empty it).
C6_RunShrinksCorpus ==
    (gpc = "done" /\ faults = {} /\ Len(StartRecords) > 0)
        => Len(read_articles(corpus)) < Len(StartRecords)

\* C7: a completed run that created a backup ends with the backup deleted
\* or with the corpus restored from it.
C7_BackupDeletedOrRestored ==
    (gpc = "done" /\ backup_filename) => (~backup.ex \/ restored)

\* C8: at the end of every completed run, whatever write failure or write
\* corruption was injected during the rewrite (and nothing else failing),
\* the corpus file parses to the record sequence it held at the start of
\* the run or to exactly the expected remaining suffix.
C8_CorpusNeverCorrupted ==
    (gpc = "done" /\ faults \subseteq {"write"})
        => read_articles(corpus) \in {StartRecords, ExpectedSuffix}

\* C9: the model is never called with a text of fewer than 150 words, be it
\* a whole body or the first chunk of a body of more than 1000 words.
C9_QualityFloor ==
    \A w \in llmCalls : w >= MinWords

\* C9 witness: a run has processed a short article, a long article whose
\* first chunk is too short, and a long article whose first chunk was sent
\* to the model.
C9_Witness ==
    /\ gpc = "done"
    /\ \E k \in 1..Len(processed_articles) : processed_articles[k].article = ShortText
    /\ \E k \in 1..Len(processed_articles) :
          processed_articles[k].article = LongShortHeadText
    /\ Words(PromptChunk(LongText)) \in llmCalls
    /\ Words(PromptChunk(LongText)) < Words(LongText)


(***************************************************************************)
(* Claims about the sender.                                                *)
(***************************************************************************)
\* the lines of the output file, in order
OutLines == Flatten(outFile)
\* the positions of the "Link: " lines of the output file
LinkPositions == {p \in 1..Len(OutLines) : OutLines[p].k = "link"}
\* the position after the last line of the entry that starts at p
EntryEnd(p) ==
    IF \E q \in LinkPositions : q > p
    THEN CHOOSE q \in LinkPositions : q > p /\ \A r \in LinkPositions : r > p => q <= r
    ELSE Len(OutLines) + 1
\* the links of the entries of the output file that hold the lines Q1. Q2. Q3.
CompleteEntryLinks ==
    {OutLines[p].id : p \in {q \in LinkPositions :
        \A n \in 1..3 : \E j \in (q + 1)..(EntryEnd(q) - 1) :
            OutLines[j].k = "q" /\ OutLines[j].n = n}}
\* the number of digests accepted by the transport that hold the link
TimesDelivered(link) ==
    Cardinality({d \in 1..Len(delivered) : link \in Range(delivered[d])})

\* C1: once a link has been appended to the sent log, no later run hands a
\* digest with a block of that link to send_email.
C1_NoDoubleSend ==
    spc = "send"
        => \A k \in 1..Len(questions_to_send) :
              BlockLink(questions_to_send[k]) \notin Range(sentLog.data)

\* C2: every block of the output file with a link and the three Q lines,
\* wherever it stands in the file, is in exactly one digest sent: a run that
\* finds nothing new to send has every such block marked sent, and no link
\* is delivered twice.
C2_EveryCompleteBlockSentOnce ==
    /\ (spc = "done" /\ returned = "true" /\ sendResult = "none")
          => \A link \in CompleteEntryLinks : PrefixedLine(link) \in read_sent_log(sentLog)
    /\ \A link \in EntryLinks : TimesDelivered(link) <= 1

\* C3: when send_email reports failure, the sent-log file is the same
\* before and after the run.
C3_FailedSendLeavesLog ==
    sendResult = "fail" => sentLog = logAtStart

\* C3 witness: a run whose transport call failed for a non-empty digest has
\* returned, with a non-empty sent log
C3_Witness ==
    /\ spc = "done"
    /\ sendResult = "fail"
    /\ returned = "false"
    /\ Len(questions_to_send) >= 1
    /\ Len(sentLog.data) >= 1

\* C10: the sent log changes only by the append of the link of a block of
\* the digest, after the single transport call of the run has returned
\* success for that digest; what the log held stays in it.
C10_LoggedOnlyAfterSend ==
    [][sentLog' # sentLog
          => /\ spc = "log"
             /\ sendResult = "ok"
             /\ transportCalls = 1
             /\ \E k \in 1..Len(questions_to_send) :
                   /\ sentLog'.data = Append(sentLog.data, BlockLink(questions_to_send[k]))
                   /\ questions_to_send[k].link \in Range(delivered[Len(delivered)])]_vars

\* C10 witness: after a successful transport call a link has been appended
\* to a sent log that already held lines
C10_Witness ==
    /\ spc = "log"
    /\ sendResult = "ok"
    /\ logIdx >= 1
    /\ Len(logAtStart.data) >= 1
    /\ Len(sentLog.data) = Len(logAtStart.data) + 1

\* the blocks of a list whose link is not in a set of sent links, in order
AbsentFrom(blocks, sent) ==
    SelectSeq(blocks, LAMBDA b : PrefixedLine(b.link) \notin sent)

\* C11: the digest selected by a run is the first max_questions_per_email
\* of the parsed blocks whose link is absent from the loaded sent log, in
\* their parse order.
C11_DigestIsPrefixOfNew ==
    spc \in {"send", "log"}
        => LET absent == AbsentFrom(all_question_blocks, sent_links)
           IN  /\ Len(questions_to_send)
                      = IF Len(absent) < max_questions_per_email
                        THEN Len(absent) ELSE max_questions_per_email
               /\ \A k \in 1..Len(questions_to_send) : questions_to_send[k] = absent[k]

\* C11 witness: of three parsed blocks one is logged, and the digest is cut
\* to the maximum, leaving a new block for a later run
C11_Witness ==
    /\ spc = "send"
    /\ Len(all_question_blocks) = 3
    /\ Len(new_question_blocks) = 2
    /\ Len(questions_to_send) = 1
    /\ max_questions_per_email = 1
    /\ BlockLink(all_question_blocks[1]) \in sent_links

WellFormedBlock(b) ==
    /\ b.link \in EntryLinks
    /\ \E j \in 1..Len(b.content) : b.content[j].k = "q"
    /\ ContentChars(b.content) > MinContentChars
    /\ \A j \in 1..Len(b.content) : b.content[j].k # "placeholder"

\* C13: every block read_extemp_questions returned, and so every block of a
\* digest, has a link, at least one question line and content longer than
\* the minimum; a placeholder entry is never in a digest.
C13_OnlyBlocksWithQuestions ==
    /\ \A k \in 1..Len(all_question_blocks) : WellFormedBlock(all_question_blocks[k])
    /\ \A k \in 1..Len(questions_to_send) : WellFormedBlock(questions_to_send[k])

\* C13 witness: the output file ends with a placeholder entry after a complete
\* entry; the run read the file, parsed the placeholder block and dropped it
C13_Witness ==
    /\ spc = "done"
    /\ configOk
    /\ Loaded
    /\ CompleteEntryLinks # {}
    /\ Len(QuestionBlocks(outFile)) = 1
    /\ \E j \in 1..Len(QuestionBlocks(outFile)[1].content) :
          QuestionBlocks(outFile)[1].content[j].k = "placeholder"
    /\ all_question_blocks = <<>>
    /\ questions_to_send = <<>>

\* C14: read_articles applied to the file write_articles_to_file produced
\* for well-formed records returns the same records in the same order.
C14_WriteReadRoundTrip ==
    gpc = "compared" => all_articles = remaining_articles

\* C14 witness: three records, two of them with the same link and one with a
\* body of several sentences, were written and read back
C14_Witness ==
    /\ gpc = "compared"
    /\ Len(remaining_articles) = 3
    /\ remaining_articles[1].link = remaining_articles[3].link
    /\ remaining_articles[2].article = LongText
    /\ Len(all_articles) = 3
    /\ Len(corpus.data) = 3

\* the lines the run has appended to the output file so far
AppendedLines == Flatten(SubSeq(outFile, Len(startOut) + 1, Len(outFile)))
\* the "Link: " lines among them, in order
AppendedLinks == SelectSeq(AppendedLines, LAMBDA l : l.k = "link")
\* the lines of the k-th entry appended: from its link line to the next one
AppendedEntry(k) ==
    LET lines == AppendedLines
        pos == {p \in 1..Len(lines) : lines[p].k = "link"}
        start == CHOOSE p \in pos : Cardinality({q \in pos : q <= p}) = k
        later == {q \in pos : q > start}
        stop == IF later = {} THEN Len(lines) + 1
                ELSE CHOOSE q \in later : \A r \in later : q <= r
    IN  SubSeq(lines, start, stop - 1)
HasLine(lines, kind) == \E j \in 1..Len(lines) : lines[j].k = kind
\* the processed records that were not skipped as too short
GeneratedFor == SelectSeq(processed_articles, LAMBDA a : Words(a.article) >= MinWords)

\* the entries appended by the run are, in order, one per record of recs,
\* each with the questions or else with the placeholder line
EntriesAre(recs) ==
    /\ Len(outFile) >= Len(startOut)
    /\ SubSeq(outFile, 1, Len(startOut)) = startOut
    /\ LET links == AppendedLinks
       IN  /\ Len(links) = Len(recs)
           /\ \A k \in 1..Len(links) :
                 LET entry == AppendedEntry(k)
                 IN  /\ links[k].id = recs[k].link
                     /\ HasLine(entry, "placeholder") # HasLine(entry, "q")
                     /\ Words(PromptChunk(recs[k].article)) < MinWords
                           => HasLine(entry, "placeholder")

\* C15 as stated: every record of the processed prefix gets one entry in the
\* output file in the run that processes it, in processing order, with the
\* placeholder line when there are no valid questions.
C15_EntryPerProcessedRecord ==
    gpc # "idle" => EntriesAre(processed_articles)

\* C15 amended: every record of the processed prefix of 150 words or more
\* gets one entry in the output file in the run that processes it, in
\* processing order, with the placeholder line when there are no valid
\* questions; a record skipped as too short gets no entry.
C15_EntryPerGeneratedRecord ==
    gpc # "idle" => EntriesAre(GeneratedFor)

\* C15 witness: a second run has ended after skipping a short record and
\* appending a placeholder entry and an entry with questions
C15_Witness ==
    /\ gpc = "done"
    /\ gresult = "complete"
    /\ startOut # <<>>
    /\ Len(GeneratedFor) = 2
    /\ Len(processed_articles) > 2
    /\ Len(AppendedLinks) = 2
    /\ \E k \in 1..2 : HasLine(AppendedEntry(k), "placeholder")
    /\ \E k \in 1..2 : HasLine(AppendedEntry(k), "q")

\* s is a prefix of t
IsPrefix(s, t) == Len(s) <= Len(t) /\ SubSeq(t, 1, Len(s)) = s

\* C16: the sent log is append-only: whatever a step of any run does
\* (successful, failed or killed), the content of the log before the step
\* is a prefix of its content after it, and an existing log stays.
C16_SentLogAppendOnly ==
    [][/\ IsPrefix(sentLog.data, sentLog'.data)
       /\ sentLog.ex => sentLog'.ex]_vars

\* C16 witness: after several runs the log of two lines of earlier runs
\* holds two more lines
C16_Witness ==
    /\ spc = "idle"
    /\ sendRuns >= 2
    /\ Len(sentLog.data) >= 4
    /\ sentLog.data[1] = BareLine(1)
    /\ sentLog.data[2] = PrefixedLine(3)

\* the read of an existing, non-empty sent log failed: set() was returned
LogReadFailed == sent_links = {} /\ logAtStart.data # <<>>

\* C17: the loaded set holds only lines of the "Link: " form, and, when the
\* log was read, no block whose link the log holds, in the bare or in the
\* "Link: " form, is selected.
C17_LogNormalizedOnLoad ==
    /\ \A l \in sent_links : l.form = "link"
    /\ (spc \in {"send", "log"} /\ ~LogReadFailed)
          => \A k \in 1..Len(questions_to_send) :
                /\ BareLine(questions_to_send[k].link) \notin Range(logAtStart.data)
                /\ PrefixedLine(questions_to_send[k].link) \notin Range(logAtStart.data)

\* C17 witness: the log holds the link of the parsed block in the bare form
\* only; the run loaded it in the "Link: " form and found nothing new
C17_Witness ==
    /\ spc = "done"
    /\ returned = "true"
    /\ Len(all_question_blocks) = 1
    /\ BareLine(all_question_blocks[1].link) \in Range(sentLog.data)
    /\ PrefixedLine(all_question_blocks[1].link) \notin Range(sentLog.data)
    /\ PrefixedLine(all_question_blocks[1].link) \in sent_links
    /\ questions_to_send = <<>>

\* the links the log held at the start of the run, whatever the number and
\* the form of their lines
LinksLogged == {logAtStart.data[k].id : k \in 1..Len(logAtStart.data)}
\* the number of lines of a link in the log at the start of the run
TimesLogged(id) ==
    Cardinality({k \in 1..Len(logAtStart.data) : logAtStart.data[k].id = id})

\* C18: several lines of one link in the sent log count as one: the set a
\* run loads holds each link of the log once, however many times it was
\* appended, and the new blocks of the run are the parsed blocks whose link
\* has no line in the log.
C18_RepeatedAppendsAreSafe ==
    (spc \in {"select", "send", "log", "done"} /\ configOk /\ ~LogReadFailed)
        => /\ sent_links = {PrefixedLine(id) : id \in LinksLogged}
           /\ spc \in {"send", "log"}
                 => /\ \A k \in 1..Len(new_question_blocks) :
                          new_question_blocks[k].link \notin LinksLogged
                    /\ \A k \in 1..Len(all_question_blocks) :
                          all_question_blocks[k].link \notin LinksLogged
                              => \E j \in 1..Len(new_question_blocks) :
                                    new_question_blocks[j] = all_question_blocks[k]

\* C18 witness: a run loaded a log to which earlier runs appended the link of
\* the parsed block twice, and found nothing new
C18_Witness ==
    /\ spc = "done"
    /\ returned = "true"
    /\ Len(all_question_blocks) = 1
    /\ TimesLogged(all_question_blocks[1].link) >= 2
    /\ Len(delivered) >= 2
    /\ sent_links = {PrefixedLine(id) : id \in LinksLogged}

\* the run found no article and returned: nothing processed, the corpus and
\* the output file as they were at its start
EmptyRun ==
    /\ gpc = "done"
    /\ gresult = "empty"
    /\ all_articles = <<>>
    /\ processed_articles = <<>>
    /\ corpus = startCorpus
    /\ outFile = startOut

\* the first read_articles of the run has just returned articles
JustRead == gpc = "loop" /\ processed_articles = <<>>

\* C19: on a missing, an empty or an unreadable corpus file read_articles
\* returns the empty sequence; the run then ends with the corpus file and the
\* output file unchanged, and the model is called and the output file written
\* only in runs that read articles.
C19_ReaderFailsSoftly ==
    /\ [](JustRead => (startCorpus.ex /\ startCorpus.data # <<>> /\ "read" \notin faults))
    /\ []((gpc \notin {"idle", "read"} /\ all_articles = <<>>) => EmptyRun)
    /\ [][(llmCalls' # llmCalls \/ outFile' # outFile)
              => (gpc = "loop" /\ all_articles # <<>>)]_vars

\* C19 witness: in a second run the read of a corpus file that holds articles
\* raised; the run has returned
C19_Witness ==
    /\ EmptyRun
    /\ runs = 2
    /\ outFile # <<>>
    /\ "read" \in faults
    /\ read_articles(corpus) # <<>>

\* the digest the run has selected: none when it returned before the send
CurrentDigest == IF spc = "send" THEN questions_to_send ELSE <<>>

\* the run has made its selection, and the run before it that selected a
\* digest had its transport call fail
AfterFailedRun ==
    /\ failedDigest.failed
    /\ configOk
    /\ sendResult = "none"
    /\ max_questions_per_email = failedDigest.max
    /\ spc \in {"send", "done"}

\* C20: after a transport failure, the next run, reading the unchanged
\* output file and the sent log without error, selects the digest of the
\* failed run: the same blocks in the same order.
C20_RetrySelectsSameDigest ==
    (AfterFailedRun /\ Loaded) => CurrentDigest = failedDigest.digest

\* C21: read_extemp_questions returns one block for every entry of the output
\* file that has a "Link: " line and content with a Q1-Q3 marker and more
\* than 50 characters: as many blocks as such entries, in file order, each
\* with the link and the content lines of its own entry.
C21_OneBlockPerEntry ==
    (spc = "select" /\ Loaded)
        => LET content(p) == SelectSeq(SubSeq(OutLines, p + 1, EntryEnd(p) - 1),
                                       LAMBDA l : l.k # "info")
               valid == {p \in LinkPositions :
                            /\ HasQuestionMarker(content(p))
                            /\ ContentChars(content(p)) > MinContentChars}
               nth(k) == CHOOSE p \in valid : Cardinality({q \in valid : q <= p}) = k
           IN  /\ Len(all_question_blocks) = Cardinality(valid)
               /\ \A k \in 1..Len(all_question_blocks) :
                     k <= Cardinality(valid)
                        => /\ all_question_blocks[k].link = OutLines[nth(k)].id
                           /\ all_question_blocks[k].content = content(nth(k))

\* C22: while the corpus rewrite is in progress or unverified, the backup
\* file exists and holds the corpus as it was at the start of the run; and
\* when the process is killed at any point of the rewrite, every record the
\* corpus held before the run is in the corpus file or in the backup file.
C22_BackupCoversRewrite ==
    /\ [](gpc \in {"update", "verify"} => (backup.ex /\ backup = startCorpus))
    /\ [][(gpc \in {"update", "verify"} /\ gpc' = "idle")
             => Range(StartRecords) \subseteq
                    (Range(read_articles(corpus')) \cup Range(read_articles(backup')))]_vars

\* C23: at an update point the rewrite is attempted at most max_retries
\* times: a write is started only after fewer than max_retries failed
\* attempts, a verified write ends the attempts, the run gives up exactly at
\* the third failed attempt and then returns without processing any further;
\* the backup file is then on disk with the corpus of the start of the run.
C23_BoundedRewriteAttempts ==
    /\ [](attempt <= max_retries /\ (gpc \in {"update", "verify"} => attempt < max_retries))
    /\ [][(gpc = "verify" /\ gpc' = "loop") => (attempt' = attempt /\ i' = i + 1)]_vars
    /\ [][gpc' = "restore" => (gpc \in {"update", "verify"} /\ attempt' = max_retries)]_vars
    /\ [][gpc = "restore"
             => (gpc' = "done" /\ gresult' = "aborted" /\ outFile' = outFile
                 /\ processed_articles' = processed_articles /\ backup' = backup)]_vars
    /\ [](gresult = "aborted" => (backup.ex /\ backup = startCorpus))

\* the sections the run has appended to the output file are, in order, one
\* whole entry per processed record that was not skipped: one "Link: " line
\* per such record, and the closing line of the last entry
EntriesFlushed ==
    LET appended == SubSeq(outFile, Len(startOut) + 1, Len(outFile))
        heads == SelectSeq(appended, LAMBDA s : s[1].k = "link")
    IN  /\ IsPrefix(startOut, outFile)
        /\ Len(heads) = Len(GeneratedFor)
        /\ \A k \in 1..Len(heads) : heads[k][1].id = GeneratedFor[k].link
        /\ appended # <<>> => appended[Len(appended)] = << SepLine >>

\* C24: the entry of a record is in the output file before the processing of
\* the next record starts, and a kill takes nothing out of the file: when the
\* run is killed, the output file holds, after what it held at the start of
\* the run, the entries of all the records processed so far that were not
\* skipped, in order (a part of the entry being written may follow them).
C24_EntriesSurviveKill ==
    /\ [][(gpc = "loop" /\ processed_articles' # processed_articles) => EntriesFlushed]_vars
    /\ [][(gpc # "idle" /\ gresult' = "killed")
             => (IsPrefix(outFile, outFile') /\ EntriesFlushed)]_vars

\* C24 witness: the run was killed while it processed the third record of the
\* batch, after an entry for the first and the skip of the short second one:
\* the output file holds the entry of the first and a part of the third
C24_Witness ==
    /\ gpc = "idle"
    /\ gresult = "killed"
    /\ runs = 1
    /\ Len(corpus.data) = 3
    /\ Words(read_articles(corpus)[2].article) < MinWords
    /\ outFile = Entry(1, AnalyticalQuestions) \o PartialEntry(3)

\* the record at index k of the batch is counted as processed, and the entry
\* appended for it holds the placeholder line and no question
PlaceholderEntryFor(k) ==
    /\ k <= Len(processed_articles)
    /\ processed_articles[k] = all_articles[k]
    /\ LET n == Len(SelectSeq(Take(processed_articles, k),
                              LAMBDA a : Words(a.article) >= MinWords))
       IN  /\ n >= 1 /\ n <= Len(AppendedLinks)
           /\ AppendedLinks[n].id = all_articles[k].link
           /\ HasLine(AppendedEntry(n), "placeholder")
           /\ ~HasLine(AppendedEntry(n), "q")

\* C25: a record whose call of the model raised gets the placeholder entry in
\* the output file and is counted as processed; the run goes on with the next
\* record of the batch (or with the corpus update after the last one); and a
\* run that completes without I/O failure has removed the record from the
\* corpus file.
C25_GenerationFailureIsEmptyOutput ==
    /\ [](\A k \in llmRaised : PlaceholderEntryFor(k))
    /\ [][llmRaised' \ llmRaised # {}
             => \/ gpc' = "loop" /\ i' = i + 1
                \/ gpc' = "update" /\ i = batch_size - 1]_vars
    /\ []((gpc = "done" /\ gresult = "complete" /\ faults = {})
             => \A k \in llmRaised : all_articles[k] \notin Range(read_articles(corpus)))

\* C26: when the model is called and answers, generate_extemp_questions
\* returns the model's text unchanged if the text holds the three markers
\* Q1. Q2. Q3. and at least two occurrences of analytical phrases, and the
\* empty text otherwise.
C26_ReturnsOutputIffValid ==
    (generation.called /\ ~generation.response.raises
        /\ ~ChunkTooShort(PromptChunk(generation.text)))
        => LET output == [qs |-> generation.response.qs,
                          phrases |-> generation.response.phrases]
           IN  IF output.qs = {1, 2, 3} /\ Len(output.phrases) >= 2
               THEN generation.returned = output
               ELSE generation.returned = NoQuestions

\* C27: a run calls the transport at most once, with the whole digest it
\* selected; when the call fails nothing of the digest is delivered and,
\* until the run ends, nothing is logged and no other call is made.
C27_OneTransportCallPerRun ==
    /\ [](transportCalls <= 1)
    /\ [][transportCalls' > transportCalls
             => /\ spc = "send" /\ questions_to_send # <<>>
                /\ questions_to_send = PySlice(new_question_blocks, max_questions_per_email)
                /\ IF sendResult' = "ok"
                   THEN delivered' = Append(delivered,
                            [k \in 1..Len(questions_to_send) |-> questions_to_send[k].link])
                   ELSE delivered' = delivered /\ sentLog' = sentLog]_vars
    /\ [][sendResult = "fail"
             => /\ spc = "done" /\ spc' = "idle"
                /\ sentLog' = sentLog /\ sentLog = logAtStart
                /\ delivered' = delivered]_vars

\* C27 witness: the single transport call of a run failed for a digest of two
\* blocks; the run has returned, nothing was delivered and the log is untouched
C27_Witness ==
    /\ spc = "done"
    /\ sendResult = "fail"
    /\ transportCalls = 1
    /\ Len(questions_to_send) = 2
    /\ delivered = <<>>
    /\ sentLog = logAtStart

\* C28: after a successful transport call the links of the digest are
\* appended to the sent log one at a time, in the order of the digest, and
\* when the run returns the lines it has added to the log are exactly the
\* links of the digest in that order.
C28_LogHoldsDigestInOrder ==
    /\ [][sentLog' # sentLog
             => /\ sendResult = "ok" /\ spc = "log"
                /\ sentLog'.data
                      = Append(sentLog.data, BlockLink(questions_to_send[logIdx + 1]))]_vars
    /\ []((spc = "done" /\ sendResult = "ok")
             => sentLog.data = logAtStart.data
                    \o [k \in 1..Len(questions_to_send) |-> BlockLink(questions_to_send[k])])

\* C29: every record read_articles returned has an identifier and a body of
\* more than 50 characters, and a block of the file with an identifier line
\* and a body of 50 characters or fewer has no record.
C29_OnlySubstantialRecords ==
    gpc \notin {"idle", "read"}
        => /\ \A k \in 1..Len(all_articles) :
                 /\ all_articles[k].link # 0
                 /\ Chars(all_articles[k].article) > MinArticleChars
           /\ \A b \in 1..Len(startCorpus.data) :
                 LET block == startCorpus.data[b]
                 IN  (/\ Len(block) = 2
                      /\ block[1].k = "link" /\ block[2].k = "article"
                      /\ Chars(block[2].text) <= MinArticleChars
                      /\ "read" \notin faults)
                        => \A k \in 1..Len(all_articles) : all_articles[k].link # block[1].id

\* C29 witness: the run read a corpus file of three blocks: a body of 40
\* characters, a body of two lines of 40 and 120 characters, and an article
\* of 200 words; it has no record for the first and one for each of the others
C29_Witness ==
    /\ gpc = "loop"
    /\ startCorpus.data = << << LinkLine(1), ArticleLine(TinyText) >>,
                             << LinkLine(2), ArticleLine(TinyText), TextLine(ShortText) >>,
                             << LinkLine(3), ArticleLine(NormalText) >> >>
    /\ Len(all_articles) = 2
    /\ all_articles[1].link = 2
    /\ Chars(all_articles[1].article) = 161

\* C30: every entry of the corpus file at the start of a run that is not a
\* record of the processed batch is still in the file when the run ends
\* without I/O failure, whether or not read_articles emitted a record for it
\* (entries are told by their "Link: " line).
C30_RewriteKeepsUnprocessedEntries ==
    (gpc = "done" /\ faults = {})
        => LET LinksOf(file) ==
                   UNION {{block[j].id : j \in {q \in 1..Len(block) : block[q].k = "link"}} :
                             block \in Range(file.data)}
               processed == {processed_articles[k].link : k \in 1..Len(processed_articles)}
           IN  (LinksOf(startCorpus) \ processed) \subseteq LinksOf(corpus)

\* C31: after a kill inside the rewrite of the corpus file and the start of
\* a new run, every record that was not yet processed at the kill is in the
\* corpus file or in the backup file once the new run has started (its backup
\* made) and once it has ended, unless the new run has processed it.
C31_NoRecordLostAcrossKill ==
    (killedRemaining # <<>> /\ gpc \in {"read", "done"})
        => \A k \in 1..Len(killedRemaining) :
              \/ killedRemaining[k] \in Range(processed_articles)
              \/ killedRemaining[k] \in Range(read_articles(corpus))
              \/ killedRemaining[k] \in Range(read_articles(backup))

\* C32: over completed runs without I/O failure, no record gets a second
\* entry in the output file, and the model is not called for a record that
\* has an entry already: the "Link: " lines of the output file are distinct,
\* and a record about to be handed to the model has no entry yet.
C32_RecordProcessedInOneRun ==
    (cleanRuns /\ faults = {})
        => LET heads == SelectSeq(outFile, LAMBDA s : s[1].k = "link")
           IN  /\ \A a, b \in 1..Len(heads) : heads[a][1].id = heads[b][1].id => a = b
               /\ (gpc = "loop" /\ i < batch_size
                      /\ ~ArticleTooShort(all_articles[i + 1].article))
                     => \A a \in 1..Len(heads) : heads[a][1].id # all_articles[i + 1].link

\* the output file holds a whole entry that carries the link
HasEntry(link) ==
    \E s \in Range(outFile) : s[1] = OutLine("link", link, 0) /\ HasLine(s, "banner")

\* C33: write before remove: at every point of a run each record of 150 words
\* or more that the corpus file held at the start of the run and holds no
\* longer has an entry in the output file, and a step that takes such a
\* record out of the corpus file finds its entry already in the output file.
C33_WriteBeforeRemove ==
    /\ [](gpc # "idle"
             => \A r \in Range(StartRecords) :
                   (Words(r.article) >= MinWords /\ r \notin Range(read_articles(corpus)))
                      => HasEntry(r.link))
    /\ [][gpc # "idle"
             => \A r \in Range(read_articles(corpus)) :
                   (Words(r.article) >= MinWords /\ r \notin Range(read_articles(corpus')))
                      => HasEntry(r.link)]_vars

\* C34: when process_and_send returns True after a transport call, the
\* sent-log file holds the link of every block of the digest (a run whose log
\* write failed does not return True).
C34_SuccessMeansLogged ==
    (spc = "done" /\ returned = "true" /\ transportCalls = 1)
        => \A k \in 1..Len(questions_to_send) :
              BlockLink(questions_to_send[k]) \in read_sent_log(sentLog)

\* C35: a run whose read of the existing sent log failed hands to the
\* transport no block whose link the log file holds.
C35_UnreadableLogSendsNothingLogged ==
    (spc = "send" /\ LogReadFailed)
        => \A k \in 1..Len(questions_to_send) :
              BlockLink(questions_to_send[k]) \notin read_sent_log(logAtStart)

\* C36: whatever the configured maximum, zero and negative values included,
\* the transport is called with a digest of at least one block and of at most
\* max_questions_per_email blocks.
C36_DigestNeverEmpty ==
    [][transportCalls' > transportCalls
          => /\ Len(questions_to_send) >= 1
             /\ Len(questions_to_send) <= max_questions_per_email]_vars

C38_NothingNewAndBadConfig ==
    /\ (spc \in {"send", "log", "done"} /\ configOk /\ all_question_blocks # <<>>
           /\ \A k \in 1..Len(all_question_blocks) :
                  BlockLink(all_question_blocks[k]) \in read_sent_log(logAtStart))
          => (spc = "done" /\ returned = "true" /\ transportCalls = 0
                /\ sentLog = logAtStart)
    /\ (spc # "idle" /\ ~configOk)
          => (spc = "done" /\ returned = "false" /\ transportCalls = 0
                /\ sentLog = logAtStart
                /\ all_question_blocks = <<>> /\ sent_links = {})

====
